---- MODULE Spec2Model ----
(***************************************************************************)
(* mysql-timeline: extraction of events from the log files of the nodes of *)
(* a Galera cluster and their merge into one timeline (src/main.go).       *)
(*                                                                         *)
(* A log line is abstracted to what the code reads of it: the matcher      *)
(* signatures it contains, the timestamp text it carries, whether it is at *)
(* least 19 bytes long, and whether the payload pattern of the extractor   *)
(* that consumes it matches.  A string is a sequence of tokens: a line is  *)
(* one token, the empty string no token, and "\n" the token NL.            *)
(***************************************************************************)
EXTENDS Integers, Sequences, FiniteSets, TLC

VARIABLES
    catalog,        \* which sample lines the input files are made of
    nfiles,         \* len(files) of main
    budget,         \* sample blocks the remaining input files may still hold
    pc,             \* position of main: open, scan, sort, done, fatal, panic
    node,           \* loop variable i of main: index of the file being read
    file,           \* the file being read: the lines its scanner delivers
    scanner,        \* bufio.Scanner: lines delivered, current token, last Scan()
    events,         \* events of getEventsFromNode
    timeline,       \* timeline of main
    globalOrderID,  \* the package variable
    trace,          \* history: the lines of this file tested against the registry
    origin,         \* history: origin[id] = <<file, line>> of the event with that id
    readFailed,     \* history: a read of some file failed part-way
    fault           \* history: why the run panicked

vars == <<catalog, nfiles, budget, pc, node, file, scanner, events, timeline,
          globalOrderID, trace, origin, readFailed, fault>>

----------------------------------------------------------------------------
(* Bounds of the model *)

MaxNodes == 3
MaxBlocks == 3

----------------------------------------------------------------------------
(* time.Time: seconds; the zero Time is before every parsed time *)

ZeroTime == 0
Early == ZeroTime + 1
Late == Early + 1

----------------------------------------------------------------------------
(* The matcher registry *)

EM(d, s, c, l, p, m) ==
    [Description |-> d, Signature |-> s, Count |-> c, Layout |-> l,
     Payload |-> p, Message |-> m]

eventMatchers == <<
    EM("Node is changing state", "WSREP: Shifting", 1, "default", {1},
       "%s => %s"),
    EM("Quorum results", "WSREP: Quorum results:", 9, "default", {3, 5},
       "Component: %s, Members: %s"),
    EM("State Transfer Required", "WSREP: State transfer required:", 3,
       "default", {2, 3}, "Group: %s\nLocal: %s"),
    EM("WSREP recovered position", "WSREP: Recovered position ", 1, "mysqld",
       {1}, "Recovered position: %s"),
    EM("Interruptor", "SST disabled due to danger of data loss", 1, "sst", {},
       "<danger>++++++++++ Interruptor ++++++++++</danger>"),
    EM("MySQL ended", " from pid file ", 1, "mysqld", {},
       "<danger>PID ended</danger>"),
    EM("MySQL normal shutdown", "mysqld: Normal shutdown", 1, "default", {},
       "<success>Normal Shutdown</success>"),
    EM("MySQL startup", "starting as process", 1, "default", {},
       "MySQL startup"),
    EM("InnoDB shutdown", "InnoDB: Starting shutdown...", 1, "default", {},
       "InnoDB shutdown"),
    EM("InnoDB shutdown complete", "mysqld: Shutdown complete", 1, "default",
       {}, "MySQL shutdown complete"),
    EM("Primary not possible", "WSREP: no nodes coming from prim view", 1,
       "default", {}, "Primary not possible"),
    EM("Cluster View", "WSREP: view(", 1, "default", {1}, "WSREP view => %s"),
    EM("xtrabackup", "WSREP: Running: ", 1, "default", {1},
       "Joining from %s | Donating to %s | Oops :-o"),
    EM("WSREP Transaction ID", "WSREP: Set WSREPXid for InnoDB: ", 1,
       "default", {1}, "WSREPXid = %s"),
    EM("Node consistency compromized", "WSREP: Node consistency compromized",
       1, "default", {}, "<danger>Node consistency compromized</danger>"),
    EM("Slave SQL Error", " Slave SQL: Error", 1, "default", {},
       "<danger>Slave SQL Error</danger>"),
    EM("Fatal Error", " Fatal error:", 1, "default", {1},
       "<danger>Fatal Error: %s</danger>") >>

Kinds == 1..Len(eventMatchers)

Sig(k) == eventMatchers[k].Signature

----------------------------------------------------------------------------
(* Lines *)

\* shift: the two state names of a "Shifting A -> B (TO: n)" payload
Line(sigs, stamp, valid, time, long, pay) ==
    [sigs |-> sigs, stamp |-> stamp, valid |-> valid, time |-> time,
     long |-> long, pay |-> pay, shift |-> <<>>]

\* the empty string: what Text() returns once Scan() has returned false
EmptyLine == Line({}, "none", FALSE, ZeroTime, FALSE, FALSE)

\* a line of the server log, "2006-01-02 15:04:05 ..." with its payload
Log(sigs, t) == Line(sigs, "default", TRUE, t, TRUE, TRUE)

\* an indented continuation line of a multi-line record
Body(sigs) == Line(sigs, "none", FALSE, ZeroTime, TRUE, TRUE)

\* "2006-01-02 15:04:05 10144 [Note] WSREP: Shifting from -> to (TO: 31389)"
ShiftLine(from, to, t) == [Log({Sig(1)}, t) EXCEPT !.shift = <<from, to>>]

----------------------------------------------------------------------------
(* Strings of lines: strings.Join(raw, "\n") *)

NL == [newline |-> TRUE]

TextOf(line) == IF line = EmptyLine THEN <<>> ELSE <<line>>

RECURSIVE Join(_)
Join(raw) ==
    IF raw = <<>> THEN <<>>
    ELSE IF Len(raw) = 1 THEN TextOf(raw[1])
    ELSE TextOf(raw[1]) \o <<NL>> \o Join(Tail(raw))

----------------------------------------------------------------------------
(* Timestamp normalisers: [panic, t] *)

Parsed(line) == IF line.valid THEN line.time ELSE ZeroTime

\* line[:19] panics on a line shorter than 19 bytes; a failed Parse prints
\* "Oops" and returns the zero Time
getTimeDefault(line) ==
    IF ~line.long THEN [panic |-> TRUE, t |-> ZeroTime]
    ELSE IF line.stamp = "default" THEN [panic |-> FALSE, t |-> Parsed(line)]
    ELSE [panic |-> FALSE, t |-> ZeroTime]

\* matches[1] panics when the pattern [0-9]{8} hh:mm:ss is nowhere in the line
getTimeWsrepSst(line) ==
    IF line.stamp = "sst" THEN [panic |-> FALSE, t |-> Parsed(line)]
    ELSE [panic |-> TRUE, t |-> ZeroTime]

\* the pattern [0-9]{6} hh:mm:ss is also found inside an 8-digit date
getTimeMysqld(line) ==
    IF line.stamp \in {"mysqld", "sst"}
    THEN [panic |-> FALSE, t |-> Parsed(line)]
    ELSE [panic |-> TRUE, t |-> ZeroTime]

getTime(layout, line) ==
    CASE layout = "default" -> getTimeDefault(line)
      [] layout = "sst" -> getTimeWsrepSst(line)
      [] layout = "mysqld" -> getTimeMysqld(line)

----------------------------------------------------------------------------
(* bufio.Scanner over the lines of a file *)

NewScanner == [pos |-> 0, tok |-> EmptyLine, ok |-> FALSE]

\* Scan(): the next line becomes the token; at the end of the input (or at a
\* read error) the token is empty and Scan() is false from then on
Scan(f, sc) ==
    IF sc.pos < Len(f.lines)
    THEN [pos |-> sc.pos + 1, tok |-> f.lines[sc.pos + 1], ok |-> TRUE]
    ELSE [pos |-> Len(f.lines), tok |-> EmptyLine, ok |-> FALSE]

\* the loop of scanLines: lines collected so far, count still to collect
RECURSIVE scanLoop(_, _, _, _)
scanLoop(f, sc, lines, count) ==
    LET ls == Append(lines, sc.tok)
    IN  IF count - 1 = 0 THEN [lines |-> ls, sc |-> sc]
        ELSE scanLoop(f, Scan(f, sc), ls, count - 1)

\* mutant: Scan() is called once more after the last line of the record
scanLinesPast(f, sc, count) ==
    LET r == scanLoop(f, sc, <<>>, count)
    IN  [lines |-> r.lines, sc |-> Scan(f, r.sc)]

scanLines(f, sc, count) == scanLoop(f, sc, <<>>, count)

----------------------------------------------------------------------------
(* Events *)

\* mutant: the counter is not incremented
SameOrderID(gid) == gid

NextOrderID(gid) == gid + 1

NewEvent(gid, eventTime, n, message, raw) ==
    [Datetime |-> eventTime, GlobalOrderID |-> NextOrderID(gid), Node |-> n,
     Message |-> message, Raw |-> Join(raw)]

Match(e, line) == e.Signature \in line.sigs

\* mutant: the loop has no break, the last matcher that matches stays
FindLastMatcher(line) ==
    IF \E k \in Kinds : Match(eventMatchers[k], line)
    THEN CHOOSE k \in Kinds :
             /\ Match(eventMatchers[k], line)
             /\ \A h \in (k + 1)..Len(eventMatchers) :
                    ~Match(eventMatchers[h], line)
    ELSE 0

\* the range loop of getEventsFromNode with its break: 0 when none matches
FindMatcher(line) ==
    IF \E k \in Kinds : Match(eventMatchers[k], line)
    THEN CHOOSE k \in Kinds :
             /\ Match(eventMatchers[k], line)
             /\ \A h \in 1..(k - 1) : ~Match(eventMatchers[h], line)
    ELSE 0

----------------------------------------------------------------------------
(* State shifts *)

shiftState ==
    ("ERROR" :> 10) @@ ("DESTROYED" :> 20) @@ ("CLOSED" :> 30)
        @@ ("OPEN" :> 40) @@ ("PRIMARY" :> 50) @@ ("JOINER" :> 60)
        @@ ("DONOR/DESYNCED" :> 70) @@ ("DONOR" :> 75) @@ ("JOINED" :> 80)
        @@ ("SYNCED" :> 90)

\* shiftState[name]: a name that is no key of the map gives 0
Rank(name) == IF name \in DOMAIN shiftState THEN shiftState[name] ELSE 0

printDanger(text) == "<danger>" \o text \o "</danger>"

printSuccess(text) == "<success>" \o text \o "</success>"

\* mutant: a shift between states of one rank is flagged too
ShiftsDownOrStays(from, to) == Rank(from) >= Rank(to)

\* shiftState[matches[1]] > shiftState[matches[2]]
ShiftsDown(from, to) == Rank(from) > Rank(to)

\* the message of "Node is changing state": from, " => ", the marked-up to
ShiftMessage(from, to) ==
    (from \o " => ")
        \o (IF ShiftsDown(from, to) THEN printDanger(to) ELSE printSuccess(to))

\* the message an extractor formats from its lines
Format(k, lines) ==
    IF k = 1 THEN ShiftMessage(lines[1].shift[1], lines[1].shift[2])
    ELSE eventMatchers[k].Message

\* eventMatchers[k].Get(scanner): the record, then its time, then its payload
Get(k, f, sc, gid) ==
    LET e == eventMatchers[k]
        r == scanLines(f, sc, e.Count)
        tm == getTime(e.Layout, r.lines[1])
        payOK == \A j \in e.Payload : r.lines[j].pay
    IN  IF tm.panic THEN [panic |-> TRUE, fault |-> "timestamp", sc |-> r.sc]
        ELSE IF ~payOK THEN [panic |-> TRUE, fault |-> "payload", sc |-> r.sc]
        ELSE [panic |-> FALSE, fault |-> "none", sc |-> r.sc,
              event |-> NewEvent(gid, tm.t, 0, Format(k, r.lines), r.lines)]

\* mutant: the node given to NewEvent, 0, is left in place
KeepNode(event, n) == event

\* event.Node = node
SetNode(event, n) == [event EXCEPT !.Node = n]

\* mutant: the timestamps alone are compared
LessByTime(a, b) == a.Datetime < b.Datetime

\* the less function given to sort.Slice
Less(a, b) ==
    IF a.Datetime = b.Datetime THEN a.GlobalOrderID < b.GlobalOrderID
    ELSE a.Datetime < b.Datetime

Perms(s) ==
    {[j \in 1..Len(s) |-> s[p[j]]] :
        p \in {q \in [1..Len(s) -> 1..Len(s)] :
                  \A a, b \in 1..Len(s) : q[a] = q[b] => a = b}}

\* mutant: the timeline is left as appended
Unsorted(s) == {s}

\* sort.Slice is not stable: any arrangement in which no element is less than
\* one placed before it
SortSlice(s) ==
    {p \in Perms(s) : \A a, b \in 1..Len(p) : a < b => ~Less(p[b], p[a])}

----------------------------------------------------------------------------
(* Sample input: the blocks of lines the input files are made of *)

Noise == <<Log({}, Early)>>
StartupEarly == <<Log({Sig(8)}, Early)>>
ShutdownEarly == <<Log({Sig(7)}, Early)>>
\* a replication error whose text quotes a fatal error
SlaveFatal == <<Log({Sig(16), Sig(17)}, Late)>>
\* a 3-line record whose second line holds the startup signature
Transfer == <<Log({Sig(3)}, Early), Body({Sig(8)}), Body({})>>
\* a 9-line record whose last line holds the shutdown signature
Quorum ==
    <<Log({Sig(2)}, Late), Body({}), Body({}), Body({}), Body({}), Body({}),
      Body({}), Body({}), Body({Sig(7)})>>
\* "2017-13-45 25:61:61 ... starting as process": no date of the calendar
StartupBadDate == <<Line({Sig(8)}, "default", FALSE, ZeroTime, TRUE, TRUE)>>
\* a quorum record of which only 5 lines are there
QuorumCut == <<Log({Sig(2)}, Late), Body({}), Body({}), Body({}), Body({})>>
\* a state-transfer record of which only the first line is there
TransferCut == <<Log({Sig(3)}, Early)>>
\* "WSREP: Shifting": 15 bytes, no timestamp
ShiftingShort == <<Line({Sig(1)}, "none", FALSE, ZeroTime, FALSE, TRUE)>>
\* the interruptor line without its "(20060102 15:04:05.000)"
InterruptorNoStamp == <<Line({Sig(5)}, "none", FALSE, ZeroTime, TRUE, TRUE)>>
\* the interruptor line with "(20171345 25:61:61.000)"
InterruptorBadDate == <<Line({Sig(5)}, "sst", FALSE, ZeroTime, TRUE, TRUE)>>
\* "171345 25:61:61 mysqld_safe mysqld from pid file ... ended"
PidEndedBadDate == <<Line({Sig(6)}, "mysqld", FALSE, ZeroTime, TRUE, TRUE)>>
\* "mysqld_safe mysqld from pid file ... ended" without its timestamp
PidEndedNoStamp == <<Line({Sig(6)}, "none", FALSE, ZeroTime, TRUE, TRUE)>>

\* the state names of the table, and one that is not in it
StateNames == DOMAIN shiftState \cup {"UNKNOWN"}

\* the sample of each event kind, from the comment of its extractor
Sample(k) ==
    CASE k = 1 -> <<ShiftLine("PRIMARY", "JOINER", Early)>>
      [] k = 2 ->
           <<Log({Sig(2)}, Early), Body({}), Body({}), Body({}), Body({}),
             Body({}), Body({}), Body({}), Body({})>>
      [] k = 3 -> <<Log({Sig(3)}, Early), Body({}), Body({})>>
      [] k = 4 -> <<Log({Sig(4)}, Early)>>
      [] k = 5 ->
           <<Line({}, "sst", TRUE, Early, TRUE, TRUE),
             Line({Sig(5)}, "sst", TRUE, Early, TRUE, TRUE),
             Line({}, "sst", TRUE, Early, TRUE, TRUE)>>
      [] k = 6 -> <<Line({Sig(6)}, "mysqld", TRUE, Early, TRUE, TRUE)>>
      [] OTHER -> <<Log({Sig(k)}, Early)>>

Blocks(c) ==
    CASE c = "mixed" ->
           {Noise, StartupEarly, ShutdownEarly, SlaveFatal, Transfer, Quorum,
            StartupBadDate}
      [] c = "faulty" ->
           {Noise, StartupEarly, StartupBadDate, QuorumCut, TransferCut,
            ShiftingShort, InterruptorNoStamp, InterruptorBadDate,
            PidEndedBadDate, PidEndedNoStamp}
      [] c = "kinds" -> {Sample(k) : k \in Kinds} \cup {Noise}
      [] c = "shift" ->
           {<<ShiftLine(from, to, Early)>> : from, to \in StateNames}

RECURSIVE Flatten(_)
Flatten(bs) == IF bs = <<>> THEN <<>> ELSE Head(bs) \o Flatten(Tail(bs))

\* the files of at most n blocks of catalogue c
BlockSeqs(c, n) == UNION {[1..m -> Blocks(c)] : m \in 0..n}

----------------------------------------------------------------------------
(* main *)

InitWith(c, b) ==
    /\ catalog = c
    /\ nfiles \in 0..MaxNodes
    /\ budget = b
    /\ pc = IF nfiles = 0 THEN "sort" ELSE "open"
    /\ node = 0
    /\ file = [lines |-> <<>>]
    /\ scanner = NewScanner
    /\ events = <<>>
    /\ timeline = <<>>
    /\ globalOrderID = 0
    /\ trace = <<>>
    /\ origin = <<>>
    /\ readFailed = FALSE
    /\ fault = "none"

Init == InitWith("mixed", MaxBlocks)

\* os.Open fails: log.Fatal
OpenFail ==
    /\ pc = "open"
    /\ pc' = "fatal"
    /\ UNCHANGED <<catalog, nfiles, budget, node, file, scanner, events,
                   timeline, globalOrderID, trace, origin, readFailed, fault>>

\* os.Open succeeds on some file; bufio.NewScanner(file)
OpenOk ==
    /\ pc = "open"
    /\ \E bs \in BlockSeqs(catalog, budget) :
          /\ file' = [lines |-> Flatten(bs)]
          /\ budget' = budget - Len(bs)
    /\ scanner' = NewScanner
    /\ events' = <<>>
    /\ trace' = <<>>
    /\ pc' = "scan"
    /\ UNCHANGED <<catalog, nfiles, node, timeline, globalOrderID, origin,
                   readFailed, fault>>

\* one turn of `for scanner.Scan()` whose Scan() is true
ScanNext ==
    /\ pc = "scan"
    /\ LET sc == Scan(file, scanner)
           k == FindMatcher(sc.tok)
       IN  /\ sc.ok
           /\ IF k = 0
              THEN /\ scanner' = sc
                   /\ trace' = Append(trace,
                                      [at |-> sc.pos, kind |-> 0, id |-> 0])
                   /\ UNCHANGED <<pc, events, globalOrderID, origin, fault>>
              ELSE LET g == Get(k, file, sc, globalOrderID)
                   IN  /\ scanner' = g.sc
                       /\ IF g.panic
                          THEN /\ pc' = "panic"
                               /\ fault' = g.fault
                               /\ trace' = Append(trace,
                                      [at |-> sc.pos, kind |-> k, id |-> 0])
                               /\ UNCHANGED <<events, globalOrderID, origin>>
                          ELSE /\ globalOrderID' = NextOrderID(globalOrderID)
                               /\ events' = Append(events, SetNode(g.event, node))
                               /\ trace' = Append(trace,
                                      [at |-> sc.pos, kind |-> k,
                                       id |-> g.event.GlobalOrderID])
                               /\ origin' = Append(origin, <<node, sc.pos>>)
                               /\ UNCHANGED <<pc, fault>>
    /\ UNCHANGED <<catalog, nfiles, budget, node, file, timeline, readFailed>>

\* Scan() is false: getEventsFromNode returns its events (scanner.Err() is
\* not looked at), main appends them and goes on to the next file
Return(failed) ==
    /\ ~Scan(file, scanner).ok
    /\ scanner' = Scan(file, scanner)
    /\ readFailed' = (readFailed \/ failed)
    /\ timeline' = timeline \o events
    /\ events' = <<>>
    /\ node' = node + 1
    /\ pc' = IF node + 1 < nfiles THEN "open" ELSE "sort"
    /\ UNCHANGED <<catalog, nfiles, budget, file, globalOrderID, trace,
                   origin, fault>>

\* the lines of the file end there
EndOfFile ==
    /\ pc = "scan"
    /\ Return(FALSE)

\* the read fails there (an I/O error, or a line longer than the scanner's
\* buffer): the lines read so far were all the scanner delivered
ReadError ==
    /\ pc = "scan"
    /\ Return(TRUE)

\* sort.Slice(timeline, less); the timeline goes to the renderer
Sort ==
    /\ pc = "sort"
    /\ timeline' \in SortSlice(timeline)
    /\ pc' = "done"
    /\ UNCHANGED <<catalog, nfiles, budget, node, file, scanner, events,
                   globalOrderID, trace, origin, readFailed, fault>>

Next == OpenFail \/ OpenOk \/ ScanNext \/ EndOfFile \/ ReadError \/ Sort

Spec == Init /\ [][Next]_vars

\* the same program on input files that hold cut and malformed records
InitFaulty == InitWith("faulty", MaxBlocks)
SpecFaulty == InitFaulty /\ [][Next]_vars

\* the same program on the sample record of each event kind
InitKinds == InitWith("kinds", MaxBlocks - 1)
SpecKinds == InitKinds /\ [][Next]_vars

\* the same program on the state shifts between every two state names
InitShift == InitWith("shift", MaxBlocks - 2)
SpecShift == InitShift /\ [][Next]_vars

----------------------------------------------------------------------------
(* Properties *)

\* the events in the order of their construction, until the sort
Discovered == timeline \o events

Ids == {Discovered[j].GlobalOrderID : j \in 1..Len(Discovered)}

\* <<file, line>> pairs, file first
Before(p, q) == p[1] < q[1] \/ (p[1] = q[1] /\ p[2] < q[2])

\* the matchers whose signature is in the line
Matching(line) == {k \in Kinds : Sig(k) \in line.sigs}

Lowest(S) == CHOOSE k \in S : \A h \in S : k <= h

\* the lines a record of each kind takes: 9 for quorum results, 3 for a
\* required state transfer, 1 for every other kind
RecordLen(k) == IF k = 2 THEN 9 ELSE IF k = 3 THEN 3 ELSE 1

\* a text split at its newlines: the strings between the separators
RECURSIVE Split(_)
Split(text) ==
    IF \A j \in 1..Len(text) : text[j] # NL THEN <<text>>
    ELSE LET j == CHOOSE j \in 1..Len(text) :
                      text[j] = NL /\ \A h \in 1..(j - 1) : text[h] # NL
         IN  <<SubSeq(text, 1, j - 1)>>
                 \o Split(SubSeq(text, j + 1, Len(text)))

\* the strings of the lines at..(at + n - 1) of the file being read
InputText(at, n) == [j \in 1..n |-> TextOf(file.lines[at + j - 1])]

\* C1: once main has sorted, every event placed before another has an
\* earlier timestamp, or the same timestamp and a smaller sequence
C1_MergedTimelineOrdered ==
    pc = "done" =>
        \A a, b \in 1..Len(timeline) :
            a < b =>
                \/ timeline[a].Datetime < timeline[b].Datetime
                \/ /\ timeline[a].Datetime = timeline[b].Datetime
                   /\ timeline[a].GlobalOrderID < timeline[b].GlobalOrderID

\* the sort moved an event of a later file before an event of an earlier one
C1_Witness ==
    /\ pc = "done"
    /\ Len(timeline) >= 3
    /\ \E a, b \in 1..Len(timeline) :
          /\ a < b
          /\ timeline[a].Node > timeline[b].Node
          /\ timeline[a].Datetime < timeline[b].Datetime

\* C2: in the sorted timeline two events of the same timestamp stand in the
\* order of their discovery: the lower file first, and within a file the
\* earlier matching line first
C2_TiesKeepDiscoveryOrder ==
    pc = "done" =>
        \A a, b \in 1..Len(timeline) :
            (a < b /\ timeline[a].Datetime = timeline[b].Datetime) =>
                Before(origin[timeline[a].GlobalOrderID],
                       origin[timeline[b].GlobalOrderID])

\* a startup of file 0 and a shutdown of file 2 in the same second, and two
\* events of one file in the same second
C2_Witness ==
    /\ pc = "done"
    /\ \E a, b \in 1..Len(timeline) :
          /\ a < b
          /\ timeline[a].Datetime = timeline[b].Datetime
          /\ timeline[a].Node = 0 /\ timeline[a].Message = "MySQL startup"
          /\ timeline[b].Node = 2
          /\ timeline[b].Message = "<success>Normal Shutdown</success>"
    /\ \E a, b \in 1..Len(timeline) :
          /\ a < b
          /\ timeline[a].Datetime = timeline[b].Datetime
          /\ timeline[a].Node = timeline[b].Node

\* C3: the counter never decreases; it changes exactly when an event is
\* constructed, by one, and the new event gets a sequence above that of every
\* event constructed before, in this file or an earlier one
C3_SequenceStrictlyIncreasing ==
    [][/\ globalOrderID' >= globalOrderID
       /\ (globalOrderID' # globalOrderID) <=>
              (Len(Discovered') = Len(Discovered) + 1)
       /\ Len(Discovered') = Len(Discovered) + 1 =>
              /\ pc = "scan"
              /\ SubSeq(Discovered', 1, Len(Discovered)) = Discovered
              /\ Discovered'[Len(Discovered')].GlobalOrderID = globalOrderID'
              /\ \A id \in Ids : id < globalOrderID'
       /\ Len(Discovered') # Len(Discovered) + 1 => Ids' = Ids
       /\ Cardinality(Ids') = Len(Discovered')]_vars

\* events of two files, the second file's built after a panic-free first
C3_Witness ==
    /\ Len(timeline) >= 1
    /\ Len(events) >= 2
    /\ node >= 1
    /\ globalOrderID >= 3

C5_RecordConsumedExactly ==
    \A j \in 1..Len(trace) :
        LET n == RecordLen(trace[j].kind)
        IN  /\ trace[j].at = IF j = 1 THEN 1
                             ELSE trace[j - 1].at
                                      + RecordLen(trace[j - 1].kind)
            /\ (trace[j].kind # 0 /\ trace[j].at + n - 1 <= Len(file.lines)) =>
                  /\ j = Len(trace) => scanner.pos = trace[j].at + n - 1
                  /\ trace[j].id # 0 =>
                         \E h \in 1..Len(Discovered) :
                             /\ Discovered[h].GlobalOrderID = trace[j].id
                             /\ Split(Discovered[h].Raw)
                                    = InputText(trace[j].at, n)

\* a 9-line and a 3-line record, each with a signature in a later line of
\* it, each followed by a tested line
C5_Witness ==
    \E j, h \in 1..(Len(trace) - 1) :
        /\ trace[j].kind = 2 /\ trace[h].kind = 3
        /\ \E l \in 1..8 : Matching(file.lines[trace[j].at + l]) # {}
        /\ \E l \in 1..2 : Matching(file.lines[trace[h].at + l]) # {}
        /\ trace[j].id # 0 /\ trace[h].id # 0
        /\ Len(events) = 2

\* the record of kind k begun at line `at` is whole in the file being read
Complete(at, k) == at + RecordLen(k) - 1 <= Len(file.lines)

\* the event with sequence id, among those constructed
EventOf(id) ==
    Discovered[CHOOSE h \in 1..Len(Discovered) :
                   Discovered[h].GlobalOrderID = id]

\* the timestamp that the layout of kind k looks for is not in the line, or
\* is cut short, or is no date
Malformed(k, line) ==
    CASE eventMatchers[k].Layout = "default" ->
           ~line.long \/ line.stamp # "default" \/ ~line.valid
      [] eventMatchers[k].Layout = "sst" ->
           line.stamp # "sst" \/ ~line.valid
      [] eventMatchers[k].Layout = "mysqld" ->
           line.stamp \notin {"mysqld", "sst"} \/ ~line.valid

\* C6: a record of which fewer lines remain than its kind needs gives no
\* event, and does not end the run
C6_TruncatedRecordYieldsNoEvent ==
    \A j \in 1..Len(trace) :
        (trace[j].kind # 0 /\ ~Complete(trace[j].at, trace[j].kind)) =>
            /\ trace[j].id = 0
            /\ pc # "panic"

\* C7: a matching line whose timestamp is malformed does not end the run:
\* its event is there, with the zero time
C7_MalformedTimestampNeverAborts ==
    \A j \in 1..Len(trace) :
        (/\ trace[j].kind # 0
         /\ Malformed(trace[j].kind, file.lines[trace[j].at])) =>
            /\ fault # "timestamp"
            /\ trace[j].id # 0 =>
                   EventOf(trace[j].id).Datetime = ZeroTime

\* C8: no timeline is put out once the read of a file has failed part-way
C8_ReadFailureAborts == pc = "done" => ~readFailed

\* C9: the events of the file being read carry its index as node, and every
\* event of the timeline carries the index of the file its lines were in
C9_NodeIsFileIndex ==
    /\ \A j \in 1..Len(events) : events[j].Node = node
    /\ \A j \in 1..Len(timeline) :
          /\ timeline[j].Node = origin[timeline[j].GlobalOrderID][1]
          /\ timeline[j].Node \in 0..(nfiles - 1)

\* events of all three files in the sorted timeline
C9_Witness ==
    /\ pc = "done"
    /\ {timeline[j].Node : j \in 1..Len(timeline)} = 0..2

\* C10: a whole record of any kind gives one event, whose raw text split at
\* the newlines is the lines of the record; no line is in two events
C10_SampleGivesItsEvent ==
    \A j \in 1..Len(trace) :
        (trace[j].kind # 0 /\ Complete(trace[j].at, trace[j].kind)) =>
            /\ trace[j].id # 0
            /\ Split(EventOf(trace[j].id).Raw)
                   = InputText(trace[j].at, RecordLen(trace[j].kind))
            /\ \A h \in 1..Len(trace) :
                   h < j => trace[h].at + RecordLen(trace[h].kind)
                                <= trace[j].at

\* the ranks of the states as the specification lists them
TableRank(name) ==
    CASE name = "ERROR" -> 10
      [] name = "DESTROYED" -> 20
      [] name = "CLOSED" -> 30
      [] name = "OPEN" -> 40
      [] name = "PRIMARY" -> 50
      [] name = "JOINER" -> 60
      [] name = "DONOR/DESYNCED" -> 70
      [] name = "DONOR" -> 75
      [] name = "JOINED" -> 80
      [] name = "SYNCED" -> 90

TableStates ==
    {"ERROR", "DESTROYED", "CLOSED", "OPEN", "PRIMARY", "JOINER",
     "DONOR/DESYNCED", "DONOR", "JOINED", "SYNCED"}

\* the events of state shifts between two states of the table, as
\* <<from, to, message>>, from the tested lines of the file being read
TableShifts ==
    {<<file.lines[trace[j].at].shift[1], file.lines[trace[j].at].shift[2],
       EventOf(trace[j].id).Message>> :
        j \in {h \in 1..Len(trace) :
                  /\ trace[h].kind = 1
                  /\ trace[h].id # 0
                  /\ file.lines[trace[h].at].shift[1] \in TableStates
                  /\ file.lines[trace[h].at].shift[2] \in TableStates}}

\* C11: the event of a shift between two states of the table marks the
\* destination as danger when its rank is below that of the origin, and as
\* success otherwise, equal ranks included: PRIMARY -> JOINER is success,
\* SYNCED -> OPEN is danger
C11_RegressiveIffLowerRank ==
    \A x \in TableShifts :
        /\ x[3] = IF TableRank(x[2]) < TableRank(x[1])
                  THEN x[1] \o " => <danger>" \o x[2] \o "</danger>"
                  ELSE x[1] \o " => <success>" \o x[2] \o "</success>"
        /\ (x[1] = "PRIMARY" /\ x[2] = "JOINER") =>
               x[3] = "PRIMARY => <success>JOINER</success>"
        /\ (x[1] = "SYNCED" /\ x[2] = "OPEN") =>
               x[3] = "SYNCED => <danger>OPEN</danger>"
        /\ TableRank(x[1]) = TableRank(x[2]) =>
               x[3] = x[1] \o " => <success>" \o x[2] \o "</success>"

\* the shift SYNCED -> OPEN gave an event that marks OPEN as danger, and it
\* is in the sorted timeline
C11_Witness ==
    /\ pc = "done"
    /\ <<"SYNCED", "OPEN", "SYNCED => <danger>OPEN</danger>">> \in TableShifts
    /\ \E j \in 1..Len(timeline) :
          timeline[j].Message = "SYNCED => <danger>OPEN</danger>"

====
